---- MODULE Spec2Model ----
(***************************************************************************)
(* A model of scripts/etl_pipeline_nike_sales.py: one run of main(), that  *)
(* is extract_data, the ten steps of transform_data, validate_data,        *)
(* load_data and generate_summary_report, over a small data frame.         *)
(*                                                                         *)
(* A data frame is a sequence of rows; a row is a record of cells; a cell  *)
(* is a number, a string (a sequence of one-character strings) or NaN.     *)
(* Numbers are exact fixed-point integers, with one scale per column:      *)
(*   Units_Sold, MRP      value * 2     (a median of integers is k/2)      *)
(*   Discount_Applied     value         (per cent)                         *)
(*   Profit               value                                            *)
(*   Revenue              value * 400   (= 2 * 2 * 100, see RevenueOf)     *)
(* Floating-point rounding is not modelled.                                *)
(***************************************************************************)
EXTENDS Integers, Sequences, FiniteSets, TLC

VARIABLES
    fileExists,   \* Path(filepath).exists() at line 84
    csv,          \* what pd.read_csv returns for the raw file (a data frame)
    pc,           \* position of the run inside main / transform_data
    raw_df,       \* main's raw_df object (line 392); transform_data's df aliases it up to line 149
    original_df,  \* main's original_df = raw_df.copy() (line 393)
    df,           \* transform_data's local df
    dtype,        \* dtype of the three text columns of df: "object" or "float64"
    cleaned_df,   \* main's cleaned_df (line 396), <<>> until transform_data returns
    error,        \* the exception main re-raises, "none" while there is none
    calls,        \* the stages main has called so far, in call order
    returns,      \* the stages that have returned to main without raising, in order
    failed_check, \* the number (1..7) of the check of validate_data whose assert failed, else 0
    returned,     \* <<frame>> once main has returned frame (line 418), <<>> before
    written       \* <<frame>> once df.to_csv has written frame to CLEANED_CSV, <<>> before

vars == <<fileExists, csv, pc, raw_df, original_df, df, dtype, cleaned_df, error,
          calls, returns, failed_check, returned, written>>

(***************************************************************************)
(* Bounds of the model.                                                    *)
(***************************************************************************)
MaxRows == 4

(***************************************************************************)
(* Cells.                                                                  *)
(***************************************************************************)
NaN == [k |-> "nan", v |-> 0, s |-> <<>>]

Num(n) == [k |-> "num", v |-> n, s |-> <<>>]

Txt(str) == [k |-> "str", v |-> 0, s |-> str]

IsNull(c) == c.k = "nan"

IsNum(c) == c.k = "num"

IsTxt(c) == c.k = "str"

\* Integers entered in the raw file, in the scale of the Units_Sold and MRP columns.
Whole(n) == Num(2 * n)

(***************************************************************************)
(* Arithmetic and comparison of numeric cells as numpy does them: NaN      *)
(* propagates through arithmetic and every comparison with NaN is false.   *)
(***************************************************************************)
Lt(a, b) == IsNum(a) /\ IsNum(b) /\ a.v < b.v

Gt(a, b) == IsNum(a) /\ IsNum(b) /\ a.v > b.v

Abs(c) == IF IsNum(c) THEN Num(IF c.v < 0 THEN -c.v ELSE c.v) ELSE c

(***************************************************************************)
(* Columns.                                                                *)
(***************************************************************************)
Col(frame, name) == [i \in 1..Len(frame) |-> frame[i][name]]

NonNull(column) == SelectSeq(column, LAMBDA c : ~IsNull(c))

Values(column) == [i \in 1..Len(NonNull(column)) |-> NonNull(column)[i].v]

Sorted(ints) == SortSeq(ints, LAMBDA a, b : a < b)

HasText(column) == \E i \in 1..Len(column) : IsTxt(column[i])

\* Series.fillna(value)
FillNa(column, value) == [i \in 1..Len(column) |-> IF IsNull(column[i]) THEN value ELSE column[i]]

\* df[name] = column: the frame with one column assigned, row by row (SubSeq
\* gives the result as a sequence of rows rather than as a function on 1..n).
SetCol(frame, name, column) ==
    SubSeq([i \in 1..Len(frame) |-> [frame[i] EXCEPT ![name] = column[i]]], 1, Len(frame))

\* Series.median(): NaN skipped; NaN when nothing is left; the mean of the two
\* middle values when their number is even.
Median(column) ==
    LET xs == Sorted(Values(column))
        n == Len(xs)
    IN  IF n = 0 THEN NaN
        ELSE IF n % 2 = 1 THEN Num(xs[(n + 1) \div 2])
        ELSE Num((xs[n \div 2] + xs[n \div 2 + 1]) \div 2)

RECURSIVE Ascending(_)
\* The members of a finite set of integers, ascending.
Ascending(S) ==
    IF S = {} THEN <<>>
    ELSE LET m == CHOOSE x \in S : \A y \in S : x <= y
         IN  <<m>> \o Ascending(S \ {m})

Count(column, c) == Cardinality({i \in 1..Len(column) : column[i] = c})

\* Series.mode(): the most frequent non-null values, sorted ascending; the
\* code takes [0], the smallest of them. The empty sequence when all is null.
Mode(column) ==
    LET present == NonNull(column)
        best == {i \in 1..Len(present) :
                    \A j \in 1..Len(present) :
                        Count(present, present[j]) <= Count(present, present[i])}
        modes == {present[i].v : i \in best}
    IN  Ascending(modes)

(***************************************************************************)
(* Strings: str.strip() and str.title() of Python, character by character. *)
(***************************************************************************)
Lowers == <<"a","b","c","d","e","f","g","h","i","j","k","l","m",
            "n","o","p","q","r","s","t","u","v","w","x","y","z">>

Uppers == <<"A","B","C","D","E","F","G","H","I","J","K","L","M",
            "N","O","P","Q","R","S","T","U","V","W","X","Y","Z">>

Digits == <<"0","1","2","3","4","5","6","7","8","9">>

IndexIn(ch, table) == IF \E i \in 1..Len(table) : table[i] = ch
                      THEN CHOOSE i \in 1..Len(table) : table[i] = ch
                      ELSE 0

IsAlpha(ch) == IndexIn(ch, Lowers) > 0 \/ IndexIn(ch, Uppers) > 0

Upper(ch) == IF IndexIn(ch, Lowers) > 0 THEN Uppers[IndexIn(ch, Lowers)] ELSE ch

Lower(ch) == IF IndexIn(ch, Uppers) > 0 THEN Lowers[IndexIn(ch, Uppers)] ELSE ch

IsSpace(ch) == ch \in {" ", "\t", "\n"}

\* str.strip(): leading and trailing whitespace removed.
Strip(str) ==
    LET keep == {i \in 1..Len(str) : ~IsSpace(str[i])}
    IN  IF keep = {} THEN <<>>
        ELSE LET first == CHOOSE i \in keep : \A j \in keep : i <= j
                 last == CHOOSE i \in keep : \A j \in keep : j <= i
             IN  SubSeq(str, first, last)

\* str.title(): a letter that follows a letter is lowercased, any other letter
\* is uppercased, other characters stay.
Title(str) ==
    [i \in 1..Len(str) |->
        IF ~IsAlpha(str[i]) THEN str[i]
        ELSE IF i > 1 /\ IsAlpha(str[i - 1]) THEN Lower(str[i])
        ELSE Upper(str[i])]

\* Series.str.strip().str.title(): NaN stays NaN.
StripTitle(c) == IF IsTxt(c) THEN Txt(Title(Strip(c.s))) ELSE NaN

\* The .str accessor raises AttributeError on a column that is not of object
\* dtype, which is what read_csv gives a text column with no value at all.
StrAccessorRaises(dt, name) == dt[name] # "object"

(***************************************************************************)
(* pd.to_datetime(errors="coerce") on ISO dates YYYY-MM-DD: the day count  *)
(* of a well-formed date with a month in 1..12 and a day in 1..31 (the     *)
(* lengths of the months are not modelled), NaT (NaN) for any other string *)
(* and for NaN; a value that is a timestamp already stays.                 *)
(***************************************************************************)
DigitOf(ch) == IndexIn(ch, Digits) - 1

IsDigit(ch) == IndexIn(ch, Digits) > 0

ParseDate(c) ==
    IF ~IsTxt(c) THEN c
    ELSE LET str == c.s
             wellFormed == /\ Len(str) = 10
                           /\ \A i \in {1, 2, 3, 4, 6, 7, 9, 10} : IsDigit(str[i])
                           /\ str[5] = "-" /\ str[8] = "-"
             year == 1000 * DigitOf(str[1]) + 100 * DigitOf(str[2])
                       + 10 * DigitOf(str[3]) + DigitOf(str[4])
             month == 10 * DigitOf(str[6]) + DigitOf(str[7])
             day == 10 * DigitOf(str[9]) + DigitOf(str[10])
         IN  IF wellFormed /\ month \in 1..12 /\ day \in 1..31
             THEN Num((year * 12 + (month - 1)) * 31 + day)
             ELSE NaN

(***************************************************************************)
(* ETLConfig (lines 27-42).                                                *)
(***************************************************************************)
Bangalore == <<"B","a","n","g","a","l","o","r","e">>

Hyderabad == <<"H","y","d","e","r","a","b","a","d">>

VALID_REGIONS == {Bangalore, Hyderabad, <<"M","u","m","b","a","i">>, <<"P","u","n","e">>,
                  <<"D","e","l","h","i">>, <<"K","o","l","k","a","t","a">>}

\* OUTLIER_THRESHOLD = 1.5, held as twice its value.
OUTLIER_THRESHOLD_x2 == 3

(***************************************************************************)
(* The raw files of the model.  Row i of a raw file is the clean row of    *)
(* position i, or that row with one field replaced by a dirty value.       *)
(***************************************************************************)
TextColumns == {"Region", "Product_Line", "Gender_Category"}

CleanRow(i) ==
    [idx              |-> i - 1,
     Order_ID         |-> Txt(<<"N", Digits[i + 1]>>),
     Order_Date       |-> Txt(<<"2","0","2","4","-","0","1","-","0","5">>),
     Region           |-> Txt(<<"P","u","n","e">>),
     Product_Line     |-> Txt(<<" ","r","u","n","n","i","n","g">>),
     Gender_Category  |-> Txt(<<"M","E","N"," ">>),
     Size             |-> Num(8),
     Units_Sold       |-> Whole(2),
     MRP              |-> Whole(100),
     Discount_Applied |-> Num(10),
     Profit           |-> Num(5),
     Revenue          |-> Num(1),
     Loss_Flag        |-> NaN,
     etl_timestamp    |-> NaN,
     etl_version      |-> NaN]

Dirty ==
    { <<"Order_ID", Txt(<<"N", "1">>)>>,
      <<"Order_ID", NaN>>,
      <<"Order_Date", Txt(<<"2","0","2","4","-","0","1","-","0","2">>)>>,
      <<"Order_Date", Txt(<<"2","0","2","4","-","1","3","-","4","5">>)>>,
      <<"Order_Date", NaN>>,
      <<"Region", Txt(<<" ","h","y","d"," ">>)>>,
      <<"Region", Txt(<<"g","o","a">>)>>,
      <<"Region", NaN>>,
      <<"Product_Line", NaN>>,
      <<"Size", Num(7)>>,
      <<"Size", NaN>>,
      <<"Units_Sold", Whole(-1)>>,
      <<"Units_Sold", Whole(0)>>,
      <<"Units_Sold", Whole(5)>>,
      <<"Units_Sold", NaN>>,
      <<"Units_Sold", Txt(<<"x">>)>>,
      <<"MRP", Whole(0)>>,
      <<"MRP", NaN>>,
      <<"Discount_Applied", Num(150)>>,
      <<"Discount_Applied", NaN>>,
      <<"Profit", Num(-5)>>,
      <<"Revenue", Num(40000000)>>,
      <<"Revenue", NaN>> }

DirtyRow(i, d) == [CleanRow(i) EXCEPT ![d[1]] = d[2]]

\* The sets of positions of an n-row raw file that may hold dirty rows: any
\* two positions, one, or none.
DirtyPositions(n) == {D \in SUBSET (1..n) : \E a, b \in 1..n : D \subseteq {a, b}} \cup {{}}

RawFile(n, dirtyAt, choice) ==
    [i \in 1..n |-> IF i \in dirtyAt THEN DirtyRow(i, choice[i]) ELSE CleanRow(i)]

\* Raw files written out in full: row i holds the given units, price, discount
\* and region, the other fields are those of the clean row.
ExampleRow(i, units, mrp, discount, region) ==
    [CleanRow(i) EXCEPT !.Units_Sold = units, !.MRP = mrp,
                        !.Discount_Applied = discount, !.Region = region]

UnitsFile(units) ==
    [i \in 1..Len(units) |->
        ExampleRow(i, Whole(units[i]), Whole(100), Num(0), Txt(<<"P","u","n","e">>))]

RegionsFile(regions) ==
    [i \in 1..Len(regions) |-> ExampleRow(i, Whole(2), Whole(100), Num(10), Txt(regions[i]))]

ProfitsFile(profits) ==
    [i \in 1..Len(profits) |-> [CleanRow(i) EXCEPT !.Profit = profits[i]]]

\* Units 2 and 10 and prices 100 and 300 under one Order_ID, then a row with
\* both missing.
MediansFile ==
    << ExampleRow(1, Whole(2), Whole(100), Num(10), Txt(<<"P","u","n","e">>)),
       [ExampleRow(2, Whole(10), Whole(300), Num(10), Txt(<<"P","u","n","e">>))
           EXCEPT !.Order_ID = Txt(<<"N", "1">>)],
       ExampleRow(3, NaN, NaN, Num(10), Txt(<<"P","u","n","e">>)) >>

ExampleFiles ==
    { UnitsFile(<<-5>>),
      <<ExampleRow(1, Whole(-5), NaN, Num(0), Txt(<<"P","u","n","e">>))>>,
      UnitsFile(<<10, 10, 30, 30, 60>>),
      UnitsFile(<<10, 10, 30, 30, 70>>),
      UnitsFile(<<10, 10, 10, 20, 40>>),
      ProfitsFile(<<NaN, Num(-5), Num(0)>>),
      MediansFile,
      UnitsFile(<<10, 10, 10, 10, 20>>),
      RegionsFile(<< <<" ","b","e","n","g","a","l","u","r","u"," ">>,
                     <<"h","y","d"," ","e","a","s","t">>,
                     <<"H","Y","D","E","R","B","A","D">> >>) }

\* read_csv's dtype of a text column: object when it holds a string, float64
\* when every value is missing.
InferDtype(frame) ==
    [c \in TextColumns |-> IF HasText(Col(frame, c)) THEN "object" ELSE "float64"]

Init ==
    /\ fileExists \in BOOLEAN
    /\ \/ \E n \in 0..MaxRows : \E dirtyAt \in DirtyPositions(n) :
             \E choice \in [dirtyAt -> Dirty] : csv = RawFile(n, dirtyAt, choice)
       \/ csv \in ExampleFiles
    /\ fileExists = FALSE => csv = <<>>
    /\ pc = "start"
    /\ raw_df = <<>>
    /\ original_df = <<>>
    /\ df = <<>>
    /\ dtype = [c \in TextColumns |-> "float64"]
    /\ cleaned_df = <<>>
    /\ error = "none"
    /\ calls = <<>>
    /\ returns = <<>>
    /\ failed_check = 0
    /\ returned = <<>>
    /\ written = <<>>

(***************************************************************************)
(* Raising: every except clause of the script logs and re-raises, so the   *)
(* run ends with the exception (lines 100-108, 234-236, 294-296, 324-326,  *)
(* 420-423).                                                               *)
(***************************************************************************)
\* main's except clause logging the error without re-raising: main returns None.
Raise_NoReraise(exception) ==
    /\ pc' = "done"
    /\ error' = exception

Raise(exception) ==
    /\ pc' = "failed"
    /\ error' = exception

(***************************************************************************)
(* extract_data (lines 66-108), called at line 392; line 393 copies.       *)
(***************************************************************************)
ExtractOutcome ==
    IF ~fileExists THEN "FileNotFoundError"
    ELSE IF Len(csv) = 0 THEN "EmptyDataError"
    ELSE "ok"

\* extract_data logging the error and returning the empty frame instead of raising.
Extract_Swallow ==
    /\ pc = "start"
    /\ calls' = Append(calls, "extract_data")
    /\ raw_df' = csv
    /\ original_df' = csv
    /\ dtype' = InferDtype(csv)
    /\ pc' = "step1"
    /\ IF ExtractOutcome = "ok"
       THEN returns' = Append(returns, "extract_data")
       ELSE UNCHANGED returns
    /\ UNCHANGED <<fileExists, csv, df, cleaned_df, error, failed_check, returned, written>>

Extract ==
    /\ pc = "start"
    /\ calls' = Append(calls, "extract_data")
    /\ IF ExtractOutcome = "ok"
       THEN /\ raw_df' = csv
            /\ original_df' = csv
            /\ dtype' = InferDtype(csv)
            /\ returns' = Append(returns, "extract_data")
            /\ pc' = "step1"
            /\ UNCHANGED error
       ELSE /\ Raise(ExtractOutcome)
            /\ UNCHANGED <<raw_df, original_df, dtype, returns>>
    /\ UNCHANGED <<fileExists, csv, df, cleaned_df, failed_check, returned, written>>

(***************************************************************************)
(* transform_data, step 1 (lines 132-144).  df is the caller's object, so  *)
(* every assignment of this step also changes raw_df, up to the line that  *)
(* raises.  The result is <<frame, exception>>.                            *)
(***************************************************************************)
FillSize(frame) ==
    SetCol(frame, "Size", FillNa(Col(frame, "Size"), Num(Mode(Col(frame, "Size"))[1])))

\* The median taken after sign correction: of the absolute values.
FillUnits_AbsFirst(frame) ==
    SetCol(frame, "Units_Sold",
           FillNa(Col(frame, "Units_Sold"),
                  Median([i \in 1..Len(frame) |-> Abs(frame[i].Units_Sold)])))

FillUnits(frame) ==
    SetCol(frame, "Units_Sold", FillNa(Col(frame, "Units_Sold"), Median(Col(frame, "Units_Sold"))))

FillMRP(frame) ==
    SetCol(frame, "MRP", FillNa(Col(frame, "MRP"), Median(Col(frame, "MRP"))))

FillDiscount(frame) ==
    SetCol(frame, "Discount_Applied", FillNa(Col(frame, "Discount_Applied"), Num(0)))

ParseDates(frame) ==
    SetCol(frame, "Order_Date", [i \in 1..Len(frame) |-> ParseDate(frame[i].Order_Date)])

FillDates(frame) ==
    SetCol(frame, "Order_Date",
           FillNa(Col(frame, "Order_Date"), Num(Mode(Col(frame, "Order_Date"))[1])))

\* Step 1 with a default in place of the mode when no date parsed: every date
\* becomes the epoch and the step goes on.
HandleMissing_DefaultDate(frame) ==
    IF Mode(Col(frame, "Size")) = <<>> THEN <<frame, "KeyError">>
    ELSE LET f1 == FillSize(frame) IN
    IF HasText(Col(f1, "Units_Sold")) THEN <<f1, "TypeError">>
    ELSE LET f2 == FillUnits(f1) IN
    IF HasText(Col(f2, "MRP")) THEN <<f2, "TypeError">>
    ELSE LET f3 == ParseDates(FillDiscount(FillMRP(f2))) IN
    IF Mode(Col(f3, "Order_Date")) = <<>>
    THEN <<SetCol(f3, "Order_Date", FillNa(Col(f3, "Order_Date"), Num(0))), "ok">>
    ELSE <<FillDates(f3), "ok">>

HandleMissing(frame) ==
    IF Mode(Col(frame, "Size")) = <<>> THEN <<frame, "KeyError">>
    ELSE LET f1 == FillSize(frame) IN
    IF HasText(Col(f1, "Units_Sold")) THEN <<f1, "TypeError">>
    ELSE LET f2 == FillUnits(f1) IN
    IF HasText(Col(f2, "MRP")) THEN <<f2, "TypeError">>
    ELSE LET f3 == ParseDates(FillDiscount(FillMRP(f2))) IN
    IF Mode(Col(f3, "Order_Date")) = <<>> THEN <<f3, "KeyError">>
    ELSE <<FillDates(f3), "ok">>

Step1 ==
    /\ pc = "step1"
    /\ calls' = Append(calls, "transform_data")
    /\ raw_df' = HandleMissing(raw_df)[1]
    /\ df' = raw_df'
    /\ IF HandleMissing(raw_df)[2] = "ok"
       THEN pc' = "step2" /\ UNCHANGED error
       ELSE Raise(HandleMissing(raw_df)[2])
    /\ UNCHANGED <<fileExists, csv, original_df, dtype, cleaned_df, returns, failed_check, returned, written>>

(***************************************************************************)
(* Step 2 (lines 146-150): drop_duplicates(subset='Order_ID', keep='first')*)
(* returns a new frame; two missing identifiers count as equal.            *)
(***************************************************************************)
IsFirstOccurrence(frame, i) == \A j \in 1..(i - 1) : frame[j].Order_ID # frame[i].Order_ID

RECURSIVE KeepRows(_, _, _)
\* The rows of frame at the positions in keep, from position i on, in order.
KeepRows(frame, keep, i) ==
    IF i > Len(frame) THEN <<>>
    ELSE (IF i \in keep THEN <<frame[i]>> ELSE <<>>) \o KeepRows(frame, keep, i + 1)

\* drop_duplicates() with the subset forgotten: only rows equal in every column go.
DropDuplicates_WholeRow(frame) ==
    KeepRows(frame, {i \in 1..Len(frame) :
                        \A j \in 1..(i - 1) : [frame[j] EXCEPT !.idx = 0] # [frame[i] EXCEPT !.idx = 0]}, 1)

\* drop_duplicates(subset='Order_ID', keep='last').
DropDuplicates_KeepLast(frame) ==
    KeepRows(frame, {i \in 1..Len(frame) :
                        \A j \in (i + 1)..Len(frame) : frame[j].Order_ID # frame[i].Order_ID}, 1)

\* Duplicates resolved among the rows with units above 0: a row is kept unless
\* an earlier row with its Order_ID has positive units.
DropDuplicates_FirstSellable(frame) ==
    KeepRows(frame, {i \in 1..Len(frame) :
                        \A j \in 1..(i - 1) :
                            frame[j].Order_ID = frame[i].Order_ID => ~Gt(frame[j].Units_Sold, Num(0))}, 1)

DropDuplicates(frame) ==
    KeepRows(frame, {i \in 1..Len(frame) : IsFirstOccurrence(frame, i)}, 1)

Step2 ==
    /\ pc = "step2"
    /\ df' = DropDuplicates(df)
    /\ pc' = "step3"
    /\ UNCHANGED <<fileExists, csv, raw_df, original_df, dtype, cleaned_df, error, calls,
                   returns, failed_check, returned, written>>

(***************************************************************************)
(* Step 3 (lines 152-163): strip, title-case, then replace whole values.   *)
(***************************************************************************)
\* The alias map with the 'Hyd' entry missing.
Alias_NoHyd(c) ==
    IF c = Txt(<<"B","e","n","g","a","l","u","r","u">>) THEN Txt(Bangalore)
    ELSE IF c = Txt(<<"H","y","d","e","r","b","a","d">>) THEN Txt(Hyderabad)
    ELSE c

Alias(c) ==
    IF c = Txt(<<"B","e","n","g","a","l","u","r","u">>) THEN Txt(Bangalore)
    ELSE IF c = Txt(<<"H","y","d">>) THEN Txt(Hyderabad)
    ELSE IF c = Txt(<<"H","y","d","e","r","b","a","d">>) THEN Txt(Hyderabad)
    ELSE c

\* The same three operations in another order: the alias map first, then
\* strip and title-case.
StandardizeRegion_AliasFirst(c) == StripTitle(Alias(c))

StandardizeRegion(c) == Alias(StripTitle(c))

Step3 ==
    /\ pc = "step3"
    /\ IF StrAccessorRaises(dtype, "Region")
       THEN Raise("AttributeError") /\ UNCHANGED df
       ELSE /\ df' = SetCol(df, "Region",
                            [i \in 1..Len(df) |-> StandardizeRegion(df[i].Region)])
            /\ pc' = "step4"
            /\ UNCHANGED error
    /\ UNCHANGED <<fileExists, csv, raw_df, original_df, dtype, cleaned_df, calls,
                   returns, failed_check, returned, written>>

(***************************************************************************)
(* Step 4 (lines 165-169): Loss_Flag = Profit < 0, as 1 (True) or 0.       *)
(***************************************************************************)
\* df['Profit'] <= 0 in place of < 0.
LossFlag_NonPositive(profit) == Num(IF IsNum(profit) /\ profit.v <= 0 THEN 1 ELSE 0)

LossFlag(profit) == Num(IF Lt(profit, Num(0)) THEN 1 ELSE 0)

Step4 ==
    /\ pc = "step4"
    /\ IF HasText(Col(df, "Profit"))
       THEN Raise("TypeError") /\ UNCHANGED df
       ELSE /\ df' = SetCol(df, "Loss_Flag", [i \in 1..Len(df) |-> LossFlag(df[i].Profit)])
            /\ pc' = "step5"
            /\ UNCHANGED error
    /\ UNCHANGED <<fileExists, csv, raw_df, original_df, dtype, cleaned_df, calls,
                   returns, failed_check, returned, written>>

(***************************************************************************)
(* Step 5 (lines 171-177): Units_Sold.abs(), then                          *)
(* Revenue = Units_Sold * MRP * (1 - Discount_Applied / 100).              *)
(* In the scales of the columns: 400 * Revenue = (2 * Units_Sold) *        *)
(* (2 * MRP) * (100 - Discount_Applied).                                   *)
(***************************************************************************)
RevenueOf(units, mrp, discount) ==
    IF IsNum(units) /\ IsNum(mrp) /\ IsNum(discount)
    THEN Num(units.v * mrp.v * (100 - discount.v))
    ELSE NaN

\* -df['Units_Sold'] in place of .abs(): every sign is flipped.
CorrectUnits_Negate(units) == IF IsNum(units) THEN Num(0 - units.v) ELSE units

CorrectUnits(units) == Abs(units)

\* Revenue computed only where none was supplied: fillna in place of assignment.
RecalcRevenue_KeepSupplied(frame) ==
    LET fixed == SetCol(frame, "Units_Sold",
                        [i \in 1..Len(frame) |-> CorrectUnits(frame[i].Units_Sold)])
    IN  SetCol(fixed, "Revenue",
               [i \in 1..Len(fixed) |->
                   IF IsNull(fixed[i].Revenue)
                   THEN RevenueOf(fixed[i].Units_Sold, fixed[i].MRP, fixed[i].Discount_Applied)
                   ELSE fixed[i].Revenue])

RecalcRevenue(frame) ==
    LET fixed == SetCol(frame, "Units_Sold",
                        [i \in 1..Len(frame) |-> CorrectUnits(frame[i].Units_Sold)])
    IN  SetCol(fixed, "Revenue",
               [i \in 1..Len(fixed) |->
                   RevenueOf(fixed[i].Units_Sold, fixed[i].MRP, fixed[i].Discount_Applied)])

Step5 ==
    /\ pc = "step5"
    /\ IF HasText(Col(df, "Discount_Applied"))
       THEN Raise("TypeError") /\ UNCHANGED df
       ELSE /\ df' = RecalcRevenue(df)
            /\ pc' = "step6"
            /\ UNCHANGED error
    /\ UNCHANGED <<fileExists, csv, raw_df, original_df, dtype, cleaned_df, calls,
                   returns, failed_check, returned, written>>

(***************************************************************************)
(* Step 6 (lines 179-184): strip and title-case Product_Line, then         *)
(* Gender_Category.                                                        *)
(***************************************************************************)
Step6 ==
    /\ pc = "step6"
    /\ IF StrAccessorRaises(dtype, "Product_Line")
       THEN Raise("AttributeError") /\ UNCHANGED df
       ELSE LET lined == SetCol(df, "Product_Line",
                                [i \in 1..Len(df) |-> StripTitle(df[i].Product_Line)])
            IN  IF StrAccessorRaises(dtype, "Gender_Category")
                THEN Raise("AttributeError") /\ df' = lined
                ELSE /\ df' = SetCol(lined, "Gender_Category",
                                     [i \in 1..Len(df) |-> StripTitle(df[i].Gender_Category)])
                     /\ pc' = "step7"
                     /\ UNCHANGED error
    /\ UNCHANGED <<fileExists, csv, raw_df, original_df, dtype, cleaned_df, calls,
                   returns, failed_check, returned, written>>

(***************************************************************************)
(* Step 7 (lines 186-190): pd.to_numeric(errors='coerce') on five columns. *)
(* A number stays, NaN stays, a string that is no number becomes NaN (the  *)
(* strings of the model's raw files are none).                             *)
(***************************************************************************)
ToNumeric(c) == IF IsTxt(c) THEN NaN ELSE c

NumericCols == <<"Units_Sold", "MRP", "Discount_Applied", "Revenue", "Profit">>

RECURSIVE CoerceCols(_, _)
CoerceCols(frame, k) ==
    IF k = 0 THEN frame
    ELSE SetCol(CoerceCols(frame, k - 1), NumericCols[k],
                [i \in 1..Len(frame) |-> ToNumeric(frame[i][NumericCols[k]])])

Step7 ==
    /\ pc = "step7"
    /\ df' = CoerceCols(df, Len(NumericCols))
    /\ pc' = "step8"
    /\ UNCHANGED <<fileExists, csv, raw_df, original_df, dtype, cleaned_df, error, calls,
                   returns, failed_check, returned, written>>

(***************************************************************************)
(* Steps 3 to 7 as one function of the frame they are given, for a call of *)
(* transform_data on a frame other than the extracted one: the exception   *)
(* of the first line that raises, and the frame when none does.            *)
(***************************************************************************)
Steps3to7Raises(frame, dt) ==
    IF StrAccessorRaises(dt, "Region") THEN "AttributeError"
    ELSE IF HasText(Col(frame, "Profit")) THEN "TypeError"
    ELSE IF HasText(Col(frame, "Discount_Applied")) THEN "TypeError"
    ELSE IF StrAccessorRaises(dt, "Product_Line") THEN "AttributeError"
    ELSE IF StrAccessorRaises(dt, "Gender_Category") THEN "AttributeError"
    ELSE "ok"

Steps3to7(frame) ==
    LET s3 == SetCol(frame, "Region",
                     [i \in 1..Len(frame) |-> StandardizeRegion(frame[i].Region)])
        s4 == SetCol(s3, "Loss_Flag", [i \in 1..Len(s3) |-> LossFlag(s3[i].Profit)])
        s5 == RecalcRevenue(s4)
        s6a == SetCol(s5, "Product_Line",
                      [i \in 1..Len(s5) |-> StripTitle(s5[i].Product_Line)])
        s6 == SetCol(s6a, "Gender_Category",
                     [i \in 1..Len(s6a) |-> StripTitle(s6a[i].Gender_Category)])
    IN  CoerceCols(s6, Len(NumericCols))

(***************************************************************************)
(* Step 8 (lines 192-205): Series.quantile(q) with linear interpolation    *)
(* over the non-null values, then the IQR filter.  Quantiles are held as   *)
(* four times their value, the two bounds as eight times theirs.           *)
(***************************************************************************)
\* Four times the quantile quarters/4 of the ascending values xs (Len(xs) > 0).
Quantile_x4(xs, quarters) ==
    LET pos == quarters * (Len(xs) - 1)
        lo == pos \div 4 + 1
        frac == pos % 4
    IN  IF frac = 0 THEN 4 * xs[lo]
        ELSE 4 * xs[lo] + frac * (xs[lo + 1] - xs[lo])

Q1_x4(frame) == Quantile_x4(Sorted(Values(Col(frame, "Revenue"))), 1)

Q3_x4(frame) == Quantile_x4(Sorted(Values(Col(frame, "Revenue"))), 3)

IQR_x4(frame) == Q3_x4(frame) - Q1_x4(frame)

lower_bound_x8(frame) == 2 * Q1_x4(frame) - OUTLIER_THRESHOLD_x2 * IQR_x4(frame)

upper_bound_x8(frame) == 2 * Q3_x4(frame) + OUTLIER_THRESHOLD_x2 * IQR_x4(frame)

\* The filter skipped when the quartiles coincide, as if no spread meant no
\* outlier.
IsOutlier_SkipZeroIQR(frame, i) ==
    /\ IsNum(frame[i].Revenue)
    /\ Values(Col(frame, "Revenue")) # <<>>
    /\ IQR_x4(frame) # 0
    /\ \/ 8 * frame[i].Revenue.v < lower_bound_x8(frame)
       \/ 8 * frame[i].Revenue.v > upper_bound_x8(frame)

\* The filter with <= and >=: a revenue on a bound is removed too.
IsOutlier_Inclusive(frame, i) ==
    /\ IsNum(frame[i].Revenue)
    /\ Values(Col(frame, "Revenue")) # <<>>
    /\ \/ 8 * frame[i].Revenue.v <= lower_bound_x8(frame)
       \/ 8 * frame[i].Revenue.v >= upper_bound_x8(frame)

\* (df['Revenue'] < lower_bound) | (df['Revenue'] > upper_bound): false for a
\* NaN revenue, and for every row when the quantiles are NaN.
IsOutlier(frame, i) ==
    /\ IsNum(frame[i].Revenue)
    /\ Values(Col(frame, "Revenue")) # <<>>
    /\ \/ 8 * frame[i].Revenue.v < lower_bound_x8(frame)
       \/ 8 * frame[i].Revenue.v > upper_bound_x8(frame)

\* df[df['Revenue'].between(lower_bound, upper_bound)]: a row with a missing
\* revenue is dropped as well.
RemoveOutliers_Between(frame) ==
    KeepRows(frame, {i \in 1..Len(frame) : IsNum(frame[i].Revenue) /\ ~IsOutlier(frame, i)}, 1)

RemoveOutliers(frame) ==
    KeepRows(frame, {i \in 1..Len(frame) : ~IsOutlier(frame, i)}, 1)

Step8 ==
    /\ pc = "step8"
    /\ df' = RemoveOutliers(df)
    /\ pc' = "step9"
    /\ UNCHANGED <<fileExists, csv, raw_df, original_df, dtype, cleaned_df, error, calls,
                   returns, failed_check, returned, written>>

(***************************************************************************)
(* Step 9 (lines 207-211): df = df[df['Units_Sold'] > 0].                  *)
(***************************************************************************)
\* df['Units_Sold'] >= 0 in place of > 0.
HasUnits_NonNegative(row) == IsNum(row.Units_Sold) /\ row.Units_Sold.v >= 0

HasUnits(row) == Gt(row.Units_Sold, Num(0))

RemoveZeroUnits(frame) ==
    KeepRows(frame, {i \in 1..Len(frame) : HasUnits(frame[i])}, 1)

Step9 ==
    /\ pc = "step9"
    /\ df' = RemoveZeroUnits(df)
    /\ pc' = "step10"
    /\ UNCHANGED <<fileExists, csv, raw_df, original_df, dtype, cleaned_df, error, calls,
                   returns, failed_check, returned, written>>

(***************************************************************************)
(* Step 10 and the return (lines 213-232); line 396 binds cleaned_df.      *)
(***************************************************************************)
AddMetadata(frame) ==
    [i \in 1..Len(frame) |->
        [frame[i] EXCEPT !.etl_timestamp = Txt(<<"n","o","w">>),
                         !.etl_version = Txt(<<"2",".","0">>)]]

Step10 ==
    /\ pc = "step10"
    /\ df' = AddMetadata(df)
    /\ cleaned_df' = df'
    /\ returns' = Append(returns, "transform_data")
    /\ pc' = "validate"
    /\ UNCHANGED <<fileExists, csv, raw_df, original_df, dtype, error, calls,
                   failed_check, returned, written>>

(***************************************************************************)
(* transform_data as one function of its argument (lines 114-236): the     *)
(* frame it returns and "ok", or the empty frame and the exception raised. *)
(***************************************************************************)
TransformData(frame, dt) ==
    LET filled == HandleMissing(frame)
    IN  IF filled[2] # "ok" THEN <<<<>>, filled[2]>>
        ELSE LET unique == DropDuplicates(filled[1])
             IN  IF Steps3to7Raises(unique, dt) # "ok"
                 THEN <<<<>>, Steps3to7Raises(unique, dt)>>
                 ELSE <<AddMetadata(RemoveZeroUnits(RemoveOutliers(Steps3to7(unique)))), "ok">>

(***************************************************************************)
(* validate_data (lines 242-296): seven asserts, in order.  Series.min()   *)
(* and .max() skip NaN and are NaN when nothing is left.                   *)
(***************************************************************************)
critical_cols == {"Order_ID", "Order_Date", "Region", "Product_Line"}

ColMin(column) ==
    LET xs == Sorted(Values(column))
    IN  IF xs = <<>> THEN NaN ELSE Num(xs[1])

ColMax(column) ==
    LET xs == Sorted(Values(column))
    IN  IF xs = <<>> THEN NaN ELSE Num(xs[Len(xs)])

Check1(frame) == \A i \in 1..Len(frame) : \A c \in critical_cols : ~IsNull(frame[i][c])

Check2(frame) == \A i \in 1..Len(frame) : IsFirstOccurrence(frame, i)

\* Check 3 passing on a column with no value: nothing to be non-positive.
Check3_EmptyPasses(frame) ==
    Values(Col(frame, "Units_Sold")) = <<>> \/ Gt(ColMin(Col(frame, "Units_Sold")), Num(0))

Check3(frame) == Gt(ColMin(Col(frame, "Units_Sold")), Num(0))

\* MRP.min() >= MIN_MRP in place of > 0.
Check4_NonNegative(frame) ==
    IsNum(ColMin(Col(frame, "MRP"))) /\ ColMin(Col(frame, "MRP")).v >= 0

Check4(frame) == Gt(ColMin(Col(frame, "MRP")), Num(0))

\* Check 5 accepting every region that is a string.
Check5_AnyText(frame) == \A i \in 1..Len(frame) : IsTxt(frame[i].Region)

Check5(frame) ==
    \A i \in 1..Len(frame) : IsTxt(frame[i].Region) /\ frame[i].Region.s \in VALID_REGIONS

Check6(frame) ==
    \A i \in 1..Len(frame) :
        /\ IsNum(frame[i].Discount_Applied)
        /\ frame[i].Discount_Applied.v >= 0
        /\ frame[i].Discount_Applied.v <= 100

\* |Revenue - calculated_revenue| of one row, NaN when either is NaN.
RevenueDiff(row) ==
    LET calc == RevenueOf(row.Units_Sold, row.MRP, row.Discount_Applied)
    IN  IF IsNum(row.Revenue) /\ IsNum(calc) THEN Abs(Num(row.Revenue.v - calc.v)) ELSE NaN

\* revenue_diff < 0.01, that is 400 * revenue_diff < 4.
Check7(frame) ==
    Lt(ColMax([i \in 1..Len(frame) |-> RevenueDiff(frame[i])]), Num(4))

\* The asserts in another order: the discount range is tested first.
FirstFailedCheck_DiscountFirst(frame) ==
    IF ~Check6(frame) THEN 6
    ELSE IF ~Check1(frame) THEN 1
    ELSE IF ~Check2(frame) THEN 2
    ELSE IF ~Check3(frame) THEN 3
    ELSE IF ~Check4(frame) THEN 4
    ELSE IF ~Check5(frame) THEN 5
    ELSE IF ~Check7(frame) THEN 7
    ELSE 0

FirstFailedCheck(frame) ==
    IF ~Check1(frame) THEN 1
    ELSE IF ~Check2(frame) THEN 2
    ELSE IF ~Check3(frame) THEN 3
    ELSE IF ~Check4(frame) THEN 4
    ELSE IF ~Check5(frame) THEN 5
    ELSE IF ~Check6(frame) THEN 6
    ELSE IF ~Check7(frame) THEN 7
    ELSE 0

\* validate_data filtering instead of asserting: on a failed check it drops the
\* rows after the first and raises.
Validate_DropRows ==
    /\ pc = "validate"
    /\ calls' = Append(calls, "validate_data")
    /\ failed_check' = FirstFailedCheck(cleaned_df)
    /\ IF failed_check' = 0
       THEN /\ returns' = Append(returns, "validate_data") /\ pc' = "load"
            /\ UNCHANGED <<error, cleaned_df>>
       ELSE /\ Raise("AssertionError")
            /\ cleaned_df' = KeepRows(cleaned_df, {1}, 1)
            /\ UNCHANGED returns
    /\ UNCHANGED <<fileExists, csv, raw_df, original_df, df, dtype, returned, written>>

Validate ==
    /\ pc = "validate"
    /\ calls' = Append(calls, "validate_data")
    /\ failed_check' = FirstFailedCheck(cleaned_df)
    /\ IF failed_check' = 0
       THEN returns' = Append(returns, "validate_data") /\ pc' = "load" /\ UNCHANGED error
       ELSE Raise("AssertionError") /\ UNCHANGED returns
    /\ UNCHANGED <<fileExists, csv, raw_df, original_df, df, dtype, cleaned_df,
                   returned, written>>

(***************************************************************************)
(* load_data (lines 302-326), called with csv_path = CLEANED_CSV (lines    *)
(* 402-405).  to_csv writes the frame, or raises when the file cannot be   *)
(* opened for writing.                                                     *)
(***************************************************************************)
Load ==
    /\ pc = "load"
    /\ calls' = Append(calls, "load_data")
    /\ \E writable \in BOOLEAN :
          IF writable
          THEN /\ written' = <<cleaned_df>>
               /\ returns' = Append(returns, "load_data")
               /\ pc' = "report"
               /\ UNCHANGED error
          ELSE Raise("OSError") /\ UNCHANGED <<written, returns>>
    /\ UNCHANGED <<fileExists, csv, raw_df, original_df, df, dtype, cleaned_df,
                   failed_check, returned>>

(***************************************************************************)
(* generate_summary_report and the return of main (lines 407-418).         *)
(***************************************************************************)
Report ==
    /\ pc = "report"
    /\ calls' = Append(calls, "generate_summary_report")
    /\ returns' = Append(returns, "generate_summary_report")
    /\ returned' = <<cleaned_df>>
    /\ pc' = "done"
    /\ UNCHANGED <<fileExists, csv, raw_df, original_df, df, dtype, cleaned_df, error,
                   failed_check, written>>

Next ==
    \/ Extract
    \/ Step1
    \/ Step2
    \/ Step3
    \/ Step4
    \/ Step5
    \/ Step6
    \/ Step7
    \/ Step8
    \/ Step9
    \/ Step10
    \/ Validate
    \/ Load
    \/ Report

Spec == Init /\ [][Next]_vars

(***************************************************************************)
(* validate_data called on its own (lines 242-296): its argument is any    *)
(* frame with the columns of a transformed one.  Row i is the row that     *)
(* transform_data returns for the clean row of position i, or that row     *)
(* with one field replaced.                                                *)
(***************************************************************************)
TransformedRow(i) ==
    LET raw == CleanRow(i)
    IN  [raw EXCEPT !.Order_Date = ParseDate(raw.Order_Date),
                    !.Region = StandardizeRegion(raw.Region),
                    !.Loss_Flag = LossFlag(raw.Profit),
                    !.Revenue = RevenueOf(raw.Units_Sold, raw.MRP, raw.Discount_Applied),
                    !.Product_Line = StripTitle(raw.Product_Line),
                    !.Gender_Category = StripTitle(raw.Gender_Category),
                    !.etl_timestamp = Txt(<<"n","o","w">>),
                    !.etl_version = Txt(<<"2",".","0">>)]

Replaced ==
    { <<"Order_ID", Txt(<<"N", "1">>)>>,
      <<"Order_ID", NaN>>,
      <<"Order_Date", NaN>>,
      <<"Region", NaN>>,
      <<"Region", Txt(<<"G","o","a">>)>>,
      <<"Region", Txt(Hyderabad)>>,
      <<"Product_Line", NaN>>,
      <<"Units_Sold", Whole(0)>>,
      <<"Units_Sold", Whole(-1)>>,
      <<"Units_Sold", NaN>>,
      <<"MRP", Whole(0)>>,
      <<"MRP", NaN>>,
      <<"Discount_Applied", Num(150)>>,
      <<"Discount_Applied", Num(-1)>>,
      <<"Discount_Applied", NaN>>,
      <<"Revenue", Num(1)>>,
      <<"Revenue", NaN>> }

ReplacedRow(i, d) == [TransformedRow(i) EXCEPT ![d[1]] = d[2]]

Dataset(n, replacedAt, choice) ==
    [i \in 1..n |-> IF i \in replacedAt THEN ReplacedRow(i, choice[i]) ELSE TransformedRow(i)]

InitValidate ==
    /\ fileExists = TRUE
    /\ csv = <<>>
    /\ pc = "validate"
    /\ raw_df = <<>>
    /\ original_df = <<>>
    /\ df = <<>>
    /\ dtype = [c \in TextColumns |-> "object"]
    /\ \E n \in 0..MaxRows : \E replacedAt \in DirtyPositions(n) :
          \E choice \in [replacedAt -> Replaced] : cleaned_df = Dataset(n, replacedAt, choice)
    /\ error = "none"
    /\ calls = <<>>
    /\ returns = <<>>
    /\ failed_check = 0
    /\ returned = <<>>
    /\ written = <<>>

SpecValidate == InitValidate /\ [][Validate]_vars

(***************************************************************************)
(* Properties.                                                             *)
(***************************************************************************)
Called(stage) == \E i \in 1..Len(calls) : calls[i] = stage

Returned(stage) == \E i \in 1..Len(returns) : returns[i] = stage

\* transform_data has completed; cleaned_df is its output.
TransformReturned == Returned("transform_data")

\* The row of the raw file an output row derives from (its index label).
Source(row) == csv[row.idx + 1]

RawHas(column, c) == \E i \in 1..Len(csv) : csv[i][column] = c

\* C1: for every input on which transform_data completes, no two rows of its
\* output share the same Order_ID.
C1_UniqueOrderIds ==
    TransformReturned =>
        \A i, j \in 1..Len(cleaned_df) :
            i # j => cleaned_df[i].Order_ID # cleaned_df[j].Order_ID

\* C1's case: a raw file with a repeated Order_ID, and an output of two rows or more.
C1_Witness ==
    /\ TransformReturned
    /\ Len(cleaned_df) >= 2
    /\ \E i, j \in 1..Len(csv) : i < j /\ csv[i].Order_ID = csv[j].Order_ID

\* The seven validation rules, stated row by row (and pairwise for uniqueness).
RowPassesRules(row) ==
    /\ \A c \in {"Order_ID", "Order_Date", "Region", "Product_Line"} : row[c].k # "nan"
    /\ row.Units_Sold.k = "num" /\ row.Units_Sold.v > 0
    /\ row.MRP.k = "num" /\ row.MRP.v > 0
    /\ row.Region.k = "str" /\ row.Region.s \in VALID_REGIONS
    /\ row.Discount_Applied.k = "num"
    /\ row.Discount_Applied.v >= 0 /\ row.Discount_Applied.v <= 100
    /\ row.Revenue.k = "num"
    /\ LET d == row.Revenue.v - row.Units_Sold.v * row.MRP.v * (100 - row.Discount_Applied.v)
       IN  d > -4 /\ d < 4

FramePassesRules(frame) ==
    /\ \A i \in 1..Len(frame) : RowPassesRules(frame[i])
    /\ \A i, j \in 1..Len(frame) : i # j => frame[i].Order_ID # frame[j].Order_ID

\* C2: load_data is called only after validate_data has returned without error,
\* every data set written satisfies the seven rules, and when validate_data
\* raises load_data is never called and nothing is written.
C2_PersistOnlyValidated ==
    /\ Called("load_data") => Returned("validate_data")
    /\ written # <<>> => FramePassesRules(written[1])
    /\ failed_check # 0 => ~Called("load_data") /\ written = <<>>

\* C2's case: a run that wrote a file of two rows or more from a raw file with a
\* negative Units_Sold.
C2_Witness ==
    /\ written # <<>>
    /\ Len(written[1]) >= 2
    /\ RawHas("Units_Sold", Whole(-1))

\* C3: every row of the output of transform_data has Units_Sold > 0.
C3_PositiveUnits ==
    TransformReturned =>
        \A i \in 1..Len(cleaned_df) :
            cleaned_df[i].Units_Sold.k = "num" /\ cleaned_df[i].Units_Sold.v > 0

\* C3's case: a raw file with a zero and a missing-or-negative Units_Sold, some
\* row removed and some row left.
C3_Witness ==
    /\ TransformReturned
    /\ RawHas("Units_Sold", Whole(0))
    /\ RawHas("Units_Sold", NaN) \/ RawHas("Units_Sold", Whole(-1))
    /\ Len(cleaned_df) >= 1
    /\ Len(cleaned_df) < Len(csv)

\* C4: every row of the output of transform_data satisfies
\* |Revenue - Units_Sold * MRP * (1 - Discount_Applied / 100)| < 0.01.
C4_RevenueConsistent ==
    TransformReturned =>
        \A i \in 1..Len(cleaned_df) :
            LET row == cleaned_df[i]
            IN  /\ row.Revenue.k = "num" /\ row.Units_Sold.k = "num"
                /\ row.MRP.k = "num" /\ row.Discount_Applied.k = "num"
                /\ LET d == row.Revenue.v
                              - row.Units_Sold.v * row.MRP.v * (100 - row.Discount_Applied.v)
                   IN  d > -4 /\ d < 4

\* C5: every row of the output of transform_data has MRP > 0.
C5_PositiveMRP ==
    TransformReturned =>
        \A i \in 1..Len(cleaned_df) : cleaned_df[i].MRP.k = "num" /\ cleaned_df[i].MRP.v > 0

\* C6: every row of the output of transform_data has Discount_Applied in [0, 100].
C6_DiscountInRange ==
    TransformReturned =>
        \A i \in 1..Len(cleaned_df) :
            /\ cleaned_df[i].Discount_Applied.k = "num"
            /\ cleaned_df[i].Discount_Applied.v >= 0
            /\ cleaned_df[i].Discount_Applied.v <= 100

Unresolved ==
    { <<Txt(<<"g","o","a">>), Txt(<<"G","o","a">>)>>,
      <<Txt(<<"h","y","d"," ","e","a","s","t">>), Txt(<<"H","y","d"," ","E","a","s","t">>)>>,
      <<NaN, NaN>> }

C8_CriticalNonNull ==
    TransformReturned =>
        \A i \in 1..Len(cleaned_df) :
            \A c \in {"Order_ID", "Order_Date", "Region", "Product_Line"} :
                cleaned_df[i][c].k # "nan"

\* C9: no row of the output of transform_data has a missing value in an imputed
\* field (Size, Units_Sold, MRP, Discount_Applied, Order_Date).
C9_NoMissingImputed ==
    TransformReturned =>
        \A i \in 1..Len(cleaned_df) :
            \A c \in {"Size", "Units_Sold", "MRP", "Discount_Applied", "Order_Date"} :
                cleaned_df[i][c].k # "nan"

StageOrder == <<"extract_data", "transform_data", "validate_data", "load_data",
                "generate_summary_report">>

IsPrefix(short, long) == Len(short) <= Len(long) /\ short = SubSeq(long, 1, Len(short))

\* C10: the stages of a run are called in the fixed order, each at most once,
\* each only after its predecessor has returned without error; after a failed
\* extraction no transformation runs, and after a failed transformation no
\* validation runs and no file is written.
C10_StageOrder ==
    /\ IsPrefix(calls, StageOrder)
    /\ IsPrefix(returns, calls)
    /\ Len(calls) <= Len(returns) + 1
    /\ error \in {"FileNotFoundError", "EmptyDataError"} => ~Called("transform_data")
    /\ error \in {"KeyError", "TypeError", "AttributeError"} =>
          ~Called("validate_data") /\ ~Called("load_data") /\ written = <<>>

\* C10's case: a run whose transformation has raised.
C10_Witness ==
    /\ pc = "failed"
    /\ calls = <<"extract_data", "transform_data">>
    /\ returns = <<"extract_data">>
    /\ written = <<>>

\* The stage that raises each exception of the model.
RaisedBy ==
    [e \in {"FileNotFoundError", "EmptyDataError", "KeyError", "TypeError", "AttributeError",
            "AssertionError", "OSError"} |->
        IF e \in {"FileNotFoundError", "EmptyDataError"} THEN "extract_data"
        ELSE IF e = "AssertionError" THEN "validate_data"
        ELSE IF e = "OSError" THEN "load_data"
        ELSE "transform_data"]

\* C11: when a stage raises, main ends by raising that error: the run is over
\* (no step is enabled, so no stage is retried or started), the last stage
\* called is the one that raised, no stage was called twice and main has
\* returned no data set.
C11_FailurePropagates ==
    error # "none" =>
        /\ pc = "failed"
        /\ ~ENABLED Next
        /\ returned = <<>>
        /\ calls[Len(calls)] = RaisedBy[error]
        /\ \A i, j \in 1..Len(calls) : i # j => calls[i] # calls[j]
        /\ ~Returned(RaisedBy[error])

\* C11's case: load_data has raised after a successful validation.
C11_Witness ==
    /\ error = "OSError"
    /\ pc = "failed"
    /\ Returned("validate_data")

\* The position in the raw file of the first row that carries the identifier id.
FirstWith(id) == CHOOSE j \in 1..Len(csv) : csv[j].Order_ID = id /\ \A h \in 1..(j - 1) : csv[h].Order_ID # id

\* C12: each output row of transform_data derives from the first raw row that
\* carries its Order_ID: it has that row's index label and that row's Profit.
C12_FirstOccurrenceKept ==
    TransformReturned =>
        \A i \in 1..Len(cleaned_df) :
            LET row == cleaned_df[i]
            IN  /\ \E j \in 1..Len(csv) : csv[j].Order_ID = row.Order_ID
                /\ row.idx + 1 = FirstWith(row.Order_ID)
                /\ row.Profit = csv[FirstWith(row.Order_ID)].Profit

\* C12's case: an output row whose Order_ID a later raw row with another
\* Profit carries too.
C12_Witness ==
    /\ TransformReturned
    /\ \E i \in 1..Len(cleaned_df) : \E j \in 1..Len(csv) :
          /\ j > cleaned_df[i].idx + 1
          /\ csv[j].Order_ID = cleaned_df[i].Order_ID
          /\ csv[j].Profit # cleaned_df[i].Profit

\* C13: an output row whose raw Units_Sold was a negative -u has Units_Sold = u
\* and Revenue = u * MRP * (1 - Discount_Applied / 100); the raw file of the one
\* row {units -5, MRP 100, discount 0} gives one row with Units_Sold 5 and
\* Revenue 500.
C13_NegativeUnitsCorrected ==
    TransformReturned =>
        /\ \A i \in 1..Len(cleaned_df) :
              LET row == cleaned_df[i]
                  raw == Source(row).Units_Sold
              IN  (raw.k = "num" /\ raw.v < 0) =>
                      /\ row.Units_Sold = Num(-raw.v)
                      /\ row.MRP.k = "num" /\ row.Discount_Applied.k = "num"
                      /\ row.Revenue = Num((-raw.v) * row.MRP.v * (100 - row.Discount_Applied.v))
        /\ csv = UnitsFile(<<-5>>) =>
              /\ Len(cleaned_df) = 1
              /\ cleaned_df[1].Units_Sold = Num(2 * 5)
              /\ cleaned_df[1].Revenue = Num(400 * 500)

\* The rows of frame whose Revenue is missing or lies in [lo / 8, hi / 8].
RowsWithin(frame, lo, hi) ==
    KeepRows(frame, {i \in 1..Len(frame) :
                        \/ frame[i].Revenue.k # "num"
                        \/ lo <= 8 * frame[i].Revenue.v /\ 8 * frame[i].Revenue.v <= hi}, 1)

\* C14: the outlier step removes exactly the rows whose Revenue is strictly
\* below Q1 - 1.5 IQR or strictly above Q3 + 1.5 IQR, Q1 and Q3 being the
\* quartiles of the Revenue column at that step, and keeps the rows in the
\* closed interval; with Q1 = 1000 and Q3 = 3000 it keeps [-2000, 6000].
C14_OutlierStep ==
    [][pc = "step8" =>
        /\ (\A i \in 1..Len(df) : df[i].Revenue.k # "num") => df' = df
        /\ (\E i \in 1..Len(df) : df[i].Revenue.k = "num") =>
              LET q1 == Q1_x4(df)
                  q3 == Q3_x4(df)
              IN  /\ df' = RowsWithin(df, 2 * q1 - 3 * (q3 - q1), 2 * q3 + 3 * (q3 - q1))
                  /\ (q1 = 4 * 400 * 1000 /\ q3 = 4 * 400 * 3000) =>
                        df' = RowsWithin(df, 8 * 400 * (-2000), 8 * 400 * 6000)
        /\ csv \in {UnitsFile(<<10, 10, 30, 30, 60>>), UnitsFile(<<10, 10, 30, 30, 70>>)} =>
              Q1_x4(df) = 4 * 400 * 1000 /\ Q3_x4(df) = 4 * 400 * 3000
      ]_vars

\* C14's case: after the outlier step on revenues 1000, 1000, 3000, 3000, 7000
\* the row of 7000 is gone and the other four are left.
C14_Witness ==
    /\ pc = "step9"
    /\ csv = UnitsFile(<<10, 10, 30, 30, 70>>)
    /\ Len(df) = 4
    /\ \A i \in 1..Len(df) : df[i].Revenue.v <= 400 * 3000

\* The raw region values of the model's files, each with the value that
\* trimming, then title-casing, then replacing a whole value that is an alias
\* key gives: written out by hand, not computed.
RegionTable ==
    { <<Txt(<<" ","b","e","n","g","a","l","u","r","u"," ">>), Txt(<<"B","a","n","g","a","l","o","r","e">>)>>,
      <<Txt(<<"H","Y","D","E","R","B","A","D">>), Txt(<<"H","y","d","e","r","a","b","a","d">>)>>,
      <<Txt(<<" ","h","y","d"," ">>), Txt(<<"H","y","d","e","r","a","b","a","d">>)>>,
      <<Txt(<<"h","y","d"," ","e","a","s","t">>), Txt(<<"H","y","d"," ","E","a","s","t">>)>>,
      <<Txt(<<"g","o","a">>), Txt(<<"G","o","a">>)>>,
      <<Txt(<<"P","u","n","e">>), Txt(<<"P","u","n","e">>)>>,
      <<NaN, NaN>> }

\* C15: the region step of transform_data keeps the rows and maps each region
\* value by trimming, then title-casing, then replacing the whole value when it
\* is an alias key: " bengaluru " becomes "Bangalore", and a value that is no
\* alias key after trim and title-case ("hyd east", "goa") is left trimmed and
\* title-cased.
C15_RegionCanonicalization ==
    [][pc = "step3" /\ pc' = "step4" =>
          /\ Len(df') = Len(df)
          /\ \A i \in 1..Len(df) : <<df[i].Region, df'[i].Region>> \in RegionTable
          /\ \A i \in 1..Len(df) :
                df[i].Region = Txt(<<" ","b","e","n","g","a","l","u","r","u"," ">>)
                    => df'[i].Region.s = Bangalore
      ]_vars

\* C15's case: the region step has run on " bengaluru ", "hyd east" and
\* "HYDERBAD".
C15_Witness ==
    /\ pc = "step4"
    /\ Len(df) = 3
    /\ Source(df[1]).Region = Txt(<<" ","b","e","n","g","a","l","u","r","u"," ">>)
    /\ df[1].Region = Txt(Bangalore)
    /\ df[2].Region = Txt(<<"H","y","d"," ","E","a","s","t">>)
    /\ df[3].Region = Txt(Hyderabad)

\* The rows of a frame as their positions in the raw file.
Ids(frame) == [i \in 1..Len(frame) |-> frame[i].idx]

\* C16: transform_data called again on the frame it returned removes no row in
\* the deduplication step, finds no missing value to fill and removes no row
\* in the units step: the rows of its second result are the rows the outlier
\* step left, so a row that is gone was an outlier of the second run.
C16_RerunRemovesOnlyOutliers ==
    TransformReturned =>
        LET again == HandleMissing(cleaned_df)
            s1 == again[1]
            s2 == DropDuplicates(s1)
            s7 == Steps3to7(s2)
            s8 == RemoveOutliers(s7)
            s9 == RemoveZeroUnits(s8)
        IN  (again[2] = "ok" /\ Steps3to7Raises(s2, dtype) = "ok") =>
                /\ s1 = cleaned_df
                /\ Ids(s2) = Ids(cleaned_df)
                /\ Ids(s7) = Ids(cleaned_df)
                /\ \A i \in 1..Len(s7) : ~IsNull(s7[i].Units_Sold) /\ s7[i].Units_Sold.v > 0
                /\ s9 = s8
                /\ \A i \in 1..Len(s7) :
                      (\A j \in 1..Len(s9) : s9[j].idx # s7[i].idx) <=> IsOutlier(s7, i)

\* C16's case: the units 10, 10, 10, 20, 40 at price 100.  The first run
\* removes the 40 and keeps the 20; on that result the 20 is an outlier, and
\* the second run removes it and nothing else.
C16_Witness ==
    /\ TransformReturned
    /\ csv = UnitsFile(<<10, 10, 10, 20, 40>>)
    /\ Ids(cleaned_df) = <<0, 1, 2, 3>>
    /\ HandleMissing(cleaned_df)[2] = "ok"
    /\ Ids(RemoveZeroUnits(RemoveOutliers(Steps3to7(DropDuplicates(HandleMissing(cleaned_df)[1])))))
          = <<0, 1, 2>>

\* C17: validate_data raises on every dataset in which a row has a null
\* Order_ID, Order_Date, Region or Product_Line, a duplicated Order_ID, a
\* Units_Sold or an MRP that is not > 0, a Region outside the canonical set, a
\* Discount_Applied outside [0, 100], or a Revenue that is not within 0.01 of
\* Units_Sold * MRP * (1 - discount / 100).
C17_ValidateRejectsEveryBadDataset ==
    (Called("validate_data") /\ ~FramePassesRules(cleaned_df)) => error = "AssertionError"

\* C18: validate_data leaves the dataset it was given as it was, rows, order
\* and field values, whether it returns or raises.
C18_ValidateReadOnly ==
    [][pc = "validate" => cleaned_df' = cleaned_df]_vars

\* C18's case: validate_data has raised on a dataset of two rows or more, and
\* the caller still holds every row, the offending one included.
C18_Witness ==
    /\ Called("validate_data")
    /\ error = "AssertionError"
    /\ failed_check = 4
    /\ Len(cleaned_df) >= 2
    /\ \E i \in 1..Len(cleaned_df) : i > 1 /\ cleaned_df[i].MRP = Whole(0)

NoDateParses ==
    /\ Len(csv) > 0
    /\ \A i \in 1..Len(csv) :
          csv[i].Order_Date \in {NaN, Txt(<<"2","0","2","4","-","1","3","-","4","5">>)}

\* C20: when no Order_Date of the input parses to a date, transform_data
\* raises in step 1, fills no date with a default and returns no dataset:
\* no later stage is called.
C20_NoValidDateAborts ==
    (NoDateParses /\ Called("transform_data")) =>
        /\ pc = "failed"
        /\ error \in {"KeyError", "TypeError"}
        /\ ~TransformReturned
        /\ cleaned_df = <<>>
        /\ \A i \in 1..Len(raw_df) : raw_df[i].Order_Date = NaN
        /\ calls = <<"extract_data", "transform_data">>

\* C20's case: a file of two rows, one date unparsable and one missing, on
\* which transform_data has raised.
C20_Witness ==
    /\ Len(csv) = 2
    /\ csv[1].Order_Date = Txt(<<"2","0","2","4","-","1","3","-","4","5">>)
    /\ csv[2].Order_Date = NaN
    /\ Called("transform_data")
    /\ pc = "failed"
    /\ error = "KeyError"

\* The most frequent non-null value of a column that is met first in row order.
FirstMetMode(column) ==
    LET present == NonNull(column)
        best == {i \in 1..Len(present) :
                    \A j \in 1..Len(present) :
                        Count(present, present[j]) <= Count(present, present[i])}
    IN  present[CHOOSE i \in best : \A j \in best : i <= j]

\* C21: when several sizes tie for most frequent among the non-missing ones,
\* the size filled into every missing Size is the tied one met first in input
\* order.
C21_SizeTieFirstEncountered ==
    pc = "step2" =>
        \A i \in 1..Len(csv) :
            IsNull(csv[i].Size) => raw_df[i].Size = FirstMetMode(Col(csv, "Size"))

\* C22: in every row of the output of transform_data Loss_Flag is true exactly
\* when the row's Profit is below 0, and the Profit is the one of the raw row
\* it comes from, a missing one included: no step corrects or fills Profit.
C22_LossFlagFromUnmodifiedProfit ==
    TransformReturned =>
        \A i \in 1..Len(cleaned_df) :
            LET profit == Source(cleaned_df[i]).Profit
            IN  /\ cleaned_df[i].Profit = profit
                /\ cleaned_df[i].Loss_Flag.k = "num"
                /\ cleaned_df[i].Loss_Flag.v \in {0, 1}
                /\ cleaned_df[i].Loss_Flag.v = 1 <=> (profit.k = "num" /\ profit.v < 0)

\* C22's case: the profits missing, -5 and 0 give the flags false, true, false.
C22_Witness ==
    /\ TransformReturned
    /\ csv = ProfitsFile(<<NaN, Num(-5), Num(0)>>)
    /\ Len(cleaned_df) = 3
    /\ cleaned_df[1].Loss_Flag.v = 0 /\ cleaned_df[1].Profit = NaN
    /\ cleaned_df[2].Loss_Flag.v = 1
    /\ cleaned_df[3].Loss_Flag.v = 0

\* A raw file with every Revenue replaced by one value.
WithRevenue(file, c) == [i \in 1..Len(file) |-> [file[i] EXCEPT !.Revenue = c]]

\* C23: the output of transform_data does not depend on the Revenue supplied
\* in the input.  Every raw file gives the result, rows, order and field
\* values, that the same file with each Revenue replaced by 777 gives; so two
\* files that differ only in Revenue give the same result, or both raise the
\* same exception.
C23_SuppliedRevenueIgnored ==
    /\ pc = "validate" =>
          TransformData(WithRevenue(csv, Num(400 * 777)), dtype) = <<cleaned_df, "ok">>
    /\ (pc = "failed" /\ Called("transform_data") /\ ~TransformReturned) =>
          TransformData(WithRevenue(csv, Num(400 * 777)), dtype) = <<<<>>, error>>

\* C23's case: a file of four rows with a supplied Revenue of 100000 in one row
\* and a missing one in another; all four rows are in the output with the
\* revenue computed from units, price and discount.
C23_Witness ==
    /\ pc = "validate"
    /\ Len(csv) = 4
    /\ RawHas("Revenue", Num(40000000))
    /\ RawHas("Revenue", NaN)
    /\ Len(cleaned_df) = 4
    /\ \A i \in 1..4 : cleaned_df[i].Revenue = Num(4 * 200 * 90)

\* A frame with every Region replaced by Pune.
AllPune(frame) == [i \in 1..Len(frame) |-> [frame[i] EXCEPT !.Region = Txt(<<"P","u","n","e">>)]]

\* C24: no step of transform_data drops a row because of its Region.  The
\* three steps that remove rows keep the rows they would keep were every
\* Region Pune, the other steps keep every row, a region that is neither an
\* alias key nor a canonical name after trim and title-case ("goa",
\* "hyd east") stays as that value, and validate_data raises on every
\* dataset with a row whose Region is not a canonical name.
C24_RegionNeverDropsRow ==
    [][/\ (pc = "step1" /\ pc' = "step2") => Ids(df') = Ids(csv)
       /\ pc = "step2" => Ids(df') = Ids(DropDuplicates(AllPune(df)))
       /\ (pc \in {"step3", "step4", "step5", "step6", "step7", "step10"} /\ pc' # "failed")
             => Ids(df') = Ids(df)
       /\ (pc = "step3" /\ pc' = "step4") =>
             \A i \in 1..Len(df) :
                /\ df[i].Region = Txt(<<"g","o","a">>) => df'[i].Region = Txt(<<"G","o","a">>)
                /\ df[i].Region = Txt(<<"h","y","d"," ","e","a","s","t">>)
                      => df'[i].Region = Txt(<<"H","y","d"," ","E","a","s","t">>)
       /\ pc = "step8" => Ids(df') = Ids(RemoveOutliers(AllPune(df)))
       /\ pc = "step9" => Ids(df') = Ids(RemoveZeroUnits(AllPune(df)))
       /\ (/\ pc = "validate"
           /\ \E i \in 1..Len(cleaned_df) :
                 ~(cleaned_df[i].Region.k = "str" /\ cleaned_df[i].Region.s \in VALID_REGIONS))
             => pc' = "failed" /\ error' = "AssertionError" /\ cleaned_df' = cleaned_df
      ]_vars

\* C24's case: a file of two rows or more with a region "goa"; every row is in
\* the output, that one with the region "Goa", and validate_data has raised at
\* the region check.
C24_Witness ==
    /\ pc = "failed"
    /\ error = "AssertionError"
    /\ failed_check = 5
    /\ Len(csv) >= 2
    /\ Ids(cleaned_df) = Ids(csv)
    /\ \E i \in 1..Len(cleaned_df) :
          /\ Source(cleaned_df[i]).Region = Txt(<<"g","o","a">>)
          /\ cleaned_df[i].Region = Txt(<<"G","o","a">>)

\* The checks a dataset violates, numbered in the order nulls in critical
\* columns, duplicate Order_ID, Units_Sold, MRP, Region, Discount_Applied,
\* revenue consistency.
ViolatedChecks(frame) ==
    (IF Check1(frame) THEN {} ELSE {1}) \cup (IF Check2(frame) THEN {} ELSE {2})
      \cup (IF Check3(frame) THEN {} ELSE {3}) \cup (IF Check4(frame) THEN {} ELSE {4})
      \cup (IF Check5(frame) THEN {} ELSE {5}) \cup (IF Check6(frame) THEN {} ELSE {6})
      \cup (IF Check7(frame) THEN {} ELSE {7})

\* C25: on a dataset violating one check or more validate_data raises the
\* AssertionError of the earliest violated check in the fixed order, and of no
\* later one; on a dataset violating none it returns, with nothing but the
\* return itself as effect.
C25_EarliestViolatedCheck ==
    Called("validate_data") =>
        LET violated == ViolatedChecks(cleaned_df)
        IN  IF violated = {}
            THEN /\ failed_check = 0 /\ error = "none" /\ pc = "load"
                 /\ returns = <<"validate_data">>
            ELSE /\ failed_check \in violated
                 /\ \A k \in violated : failed_check <= k
                 /\ error = "AssertionError" /\ pc = "failed"
                 /\ returns = <<>>

\* C25's case: a dataset with a duplicated Order_ID in one row and a discount
\* of 150 in another: validate_data has raised for the duplicate.
C25_Witness ==
    /\ Called("validate_data")
    /\ ViolatedChecks(cleaned_df) = {2, 6}
    /\ failed_check = 2
    /\ error = "AssertionError"

\* C26: validate_data raises at the Units_Sold check on a dataset of zero
\* rows, in which no row violates a rule; so a run of main whose
\* transformation removes every row ends with that AssertionError, never
\* calls load_data and writes no file.
C26_EmptyDatasetRejected ==
    (Called("validate_data") /\ cleaned_df = <<>>) =>
        /\ FramePassesRules(cleaned_df)
        /\ failed_check = 3
        /\ error = "AssertionError"
        /\ pc = "failed"
        /\ ~Called("load_data")
        /\ written = <<>>

\* C26's case: a raw file of two rows, both with 0 units: step 9 has removed
\* both and validate_data has raised.
C26_Witness ==
    /\ Len(csv) = 2
    /\ \A i \in 1..2 : csv[i].Units_Sold = Whole(0)
    /\ TransformReturned
    /\ cleaned_df = <<>>
    /\ Called("validate_data")
    /\ failed_check = 3
    /\ pc = "failed"

\* The rows of the raw file that are the first with their Order_ID, with the
\* values step 1 gave them, the units made positive and the revenue computed
\* from units, price and discount.
FirstCorrected ==
    LET first == KeepRows(raw_df, {i \in 1..Len(csv) :
                                      \A j \in 1..(i - 1) : csv[j].Order_ID # csv[i].Order_ID}, 1)
    IN  [i \in 1..Len(first) |->
            LET u == first[i].Units_Sold
                m == first[i].MRP
                d == first[i].Discount_Applied
                units == IF u.k = "num" /\ u.v < 0 THEN Num(0 - u.v) ELSE u
            IN  [first[i] EXCEPT
                    !.Units_Sold = units,
                    !.Revenue = IF units.k = "num" /\ m.k = "num" /\ d.k = "num"
                                THEN Num(units.v * m.v * (100 - d.v))
                                ELSE NaN]]

\* C27: the rows of the output of transform_data are, in input order, the raw
\* rows that are the first with their Order_ID, whose recomputed Revenue is
\* not outside the outlier bounds and whose corrected Units_Sold is > 0: a
\* row is dropped for one of these three reasons only.
C27_ThreeDropReasons ==
    pc = "validate" =>
        \A rows \in {FirstCorrected} :
            Ids(cleaned_df) =
                Ids(KeepRows(rows,
                             {i \in 1..Len(rows) :
                                 /\ ~IsOutlier(rows, i)
                                 /\ rows[i].Units_Sold.k = "num"
                                 /\ rows[i].Units_Sold.v > 0}, 1))

\* C27's case: of four raw rows the second repeats the first Order_ID and the
\* third has 0 units; the output is the first and the fourth row.
C27_Witness ==
    /\ pc = "validate"
    /\ Len(csv) = 4
    /\ csv[2].Order_ID = csv[1].Order_ID
    /\ csv[3].Units_Sold = Whole(0)
    /\ Ids(cleaned_df) = <<0, 3>>

\* C28: when the first raw row carrying an Order_ID is not in the output of
\* transform_data (the outlier step or the units step removed it), no output
\* row carries that Order_ID, whatever the later rows with it hold: duplicates
\* are discarded before the filters and never reinstated.
C28_RemovedFirstNotReinstated ==
    pc = "validate" =>
        \A i \in 1..Len(csv) :
            (/\ \A j \in 1..(i - 1) : csv[j].Order_ID # csv[i].Order_ID
             /\ \A r \in 1..Len(cleaned_df) : cleaned_df[r].idx # i - 1)
                => \A r \in 1..Len(cleaned_df) : cleaned_df[r].Order_ID # csv[i].Order_ID

\* C28's case: the first row has 0 units, the second carries the same Order_ID
\* with 2 units and would pass every filter, the third is clean; the output is
\* the third row alone.
C28_Witness ==
    /\ pc = "validate"
    /\ Len(csv) = 3
    /\ csv[1].Units_Sold = Whole(0)
    /\ csv[2].Order_ID = csv[1].Order_ID
    /\ csv[2].Units_Sold = Whole(2)
    /\ Ids(cleaned_df) = <<2>>

\* The median of the numbers of a column by rank: the middle one, or the mean
\* of the two middle ones (numbers are held doubled, so the mean is exact).
MedianByRank(column) ==
    LET at == {i \in 1..Len(column) : column[i].k = "num"}
        n == Cardinality(at)
        Ranked(k) == CHOOSE v \in {column[i].v : i \in at} :
                        /\ Cardinality({i \in at : column[i].v < v}) < k
                        /\ k <= Cardinality({i \in at : column[i].v <= v})
    IN  IF n % 2 = 1 THEN Ranked((n + 1) \div 2)
        ELSE (Ranked(n \div 2) + Ranked(n \div 2 + 1)) \div 2

\* C29: the value filled into a missing Units_Sold, and into a missing MRP,
\* is the median of the non-missing values of the raw column, rows that are
\* later removed as duplicates and negative units counted as they are; in the
\* output a filled unit value is the absolute value of that median.
C29_MedianOfRawColumn ==
    /\ pc = "step2" =>
          \A c \in {"Units_Sold", "MRP"} : \A i \in 1..Len(csv) :
              (csv[i][c] = NaN /\ \E j \in 1..Len(csv) : csv[j][c].k = "num") =>
                  raw_df[i][c] = Num(MedianByRank(Col(csv, c)))
    /\ pc = "validate" =>
          \A r \in 1..Len(cleaned_df) :
              (/\ Source(cleaned_df[r]).Units_Sold = NaN
               /\ \E j \in 1..Len(csv) : csv[j].Units_Sold.k = "num") =>
                  \A m \in {MedianByRank(Col(csv, "Units_Sold"))} :
                      cleaned_df[r].Units_Sold = Num(IF m < 0 THEN 0 - m ELSE m)

\* C29's case: units 2 and 10 and prices 100 and 300 under one Order_ID and
\* a third row with both missing: the third row is in the output with 6 units
\* at price 200, though the row with 10 units was removed as a duplicate.
C29_Witness ==
    /\ pc = "validate"
    /\ csv = MediansFile
    /\ Ids(cleaned_df) = <<0, 2>>
    /\ cleaned_df[2].Units_Sold = Whole(6)
    /\ cleaned_df[2].MRP = Whole(200)

\* C30: when the first and the third quartile of the recomputed Revenue are
\* equal, the outlier step keeps the rows whose Revenue is that value and
\* removes every other row; and it never removes the row of a one-row frame.
C30_ZeroIQRKeepsQuartileRows ==
    [][pc = "step8" =>
          /\ \A rows \in {df} :
                (/\ \E i \in 1..Len(rows) : rows[i].Revenue.k = "num"
                 /\ Q1_x4(rows) = Q3_x4(rows))
                    => df' = KeepRows(rows, {i \in 1..Len(rows) :
                                                /\ rows[i].Revenue.k = "num"
                                                /\ 4 * rows[i].Revenue.v = Q1_x4(rows)}, 1)
          /\ Len(df) = 1 => df' = df
      ]_vars

\* C30's case: revenues 1000 four times and 2000 once: both quartiles are
\* 1000 and the outlier step has removed the row with 2000 only.
C30_Witness ==
    /\ pc = "step9"
    /\ csv = UnitsFile(<<10, 10, 10, 10, 20>>)
    /\ Ids(df) = <<0, 1, 2, 3>>
    /\ \A i \in 1..Len(df) : df[i].Revenue = Num(400 * 1000)

====
